---- MODULE Spec2Model ----
(***************************************************************************)
(* Model of the matching game in src/js/app.js: Card, Deck, Scoreboard and *)
(* Game, together with the parts of the browser the code relies on: the    *)
(* list of card elements in the page (class list, icon class, bound click  *)
(* handler), the queue of setTimeout callbacks and the setInterval timers.  *)
(***************************************************************************)
EXTENDS Integers, Sequences, FiniteSets, TLC

\* ---------------------------------------------------------------- bounds
\* the game (Spec): show/hide callbacks pending at once, and turns resolved
\* between two restarts
MaxTimers == 3
MaxMoves == 1
\* the game: the highest reading of Date.now() - startTime, in ms, and how
\* far below the start the clock is set back
MaxElapsed == 1000
MaxGameClockBack == 0
\* the game: the player clicks the cards that have fewer than MaxAhead cards
\* still in play before them on the page
MaxAhead == 2
\* the game: Deck.shuffle exchanges the first MaxShuffled cards only
MaxShuffled == 3
\* the game with quick clicks (SpecBurst): callbacks pending, turns resolved
MaxBurst == 4
MaxBurstMoves == 2
\* the game played to its end (SpecFinish): callbacks pending, turns
\* resolved, cards in play the player clicks, the highest reading of the
\* clock in ms
MaxFinishTimers == 2
MaxFinishMoves == 8
MaxFinishAhead == 2
MaxFinishElapsed == 999
\* the scoreboard on its own (SpecScoreboard): moves counted, highest
\* reading of the clock and how far it is set back, in ms
MaxScoreMoves == 26
MaxRunTime == 2000
MaxClockBack == 1000
\* the deck on its own (SpecDeck): types in the list, and, in the game that
\* follows, callbacks pending, turns resolved and the types of the lists
\* whose cards are revealed
MaxTypes == 2
MaxDeckTimers == 1
MaxDeckMoves == 1
MaxDeckPlayedTypes == 1

\* ------------------------------------------------------ program constants
ShowDelay == 50
HideDelay == 800
TickInterval == 1000
MsPerSecond == 1000
PrefixLen == 6
StarHigh == 15
StarMid == 25
Null == 0
Detached == 0

\* main(): the list of card types
cardTypes ==
  <<"anchor", "bicycle", "bolt", "bomb", "cube", "diamond", "leaf", "paper-plane">>

\* ------------------------------------------------------------------ Card
\* new Card(type): a card of the deck carries its type only
Card(type) == [type |-> type]

\* the text 'fa fa-' that toHtml puts in front of the type
IconPrefix == "fa fa-"

\* Card.toHtml: the element the markup creates once appended to the page;
\* it has the class 'card', one <i> child and no click handler yet
toHtml(card) ==
  [cls |-> {"card"}, icon |-> IconPrefix \o card.type, click |-> FALSE]

\* Card.determineType: className.substr(6) of the child's class attribute
determineType(node) == SubSeq(node.icon, PrefixLen + 1, Len(node.icon))

\* Card.fromElem: a card for the element at position e of the page
fromElem(page, e) == [type |-> determineType(page[e]), elem |-> e]

\* isEqual comparing the card with itself
isEqualSelf(c1, c2) == c1.type = c1.type

\* Card.isEqual
isEqual(c1, c2) == c1.type = c2.type

\* lock without addClass('match')
lockNoMatch(cls) == cls \ {"open", "show"}

\* Card.lock: addClass('match').removeClass('open show')
lock(cls) == (cls \cup {"match"}) \ {"open", "show"}

\* the callback of Card.show: addClass('open show')
showCallback(cls) == cls \cup {"open", "show"}

\* the callback of Card.hide: removeClass('open show')
hideCallback(cls) == cls \ {"open", "show"}

\* The pending setTimeout callbacks are kept in the order they were requested.
\* A callback records its delay, the element its card holds and whether it
\* was requested before the latest restart (pre).
\* Card.show: setTimeout(..., 50) for the card's element
show(tq, card) ==
  Append(tq, [kind |-> "show", delay |-> ShowDelay, elem |-> card.elem,
              pre |-> FALSE])

\* Card.hide: setTimeout(..., 800) for the card's element
hide(tq, card) ==
  Append(tq, [kind |-> "hide", delay |-> HideDelay, elem |-> card.elem,
              pre |-> FALSE])

\* ------------------------------------------------------------------ Deck
\* Deck constructor: two cards per type, in the order of the type list
DeckNew(types) ==
  [cardTypeCount |-> Len(types),
   cards |-> [i \in 1..(2 * Len(types)) |-> Card(types[(i + 1) \div 2])]]

\* the exchange without the temporary value: cards[randomIndex] is lost
SwapNoTemp(s, i, j) == [s EXCEPT ![i] = s[j]]

Swap(s, i, j) == [s EXCEPT ![i] = s[j], ![j] = s[i]]

Identity(n) == [i \in 1..n |-> i]

\* Math.floor(Math.random() * (currentIndex - 1))
randomIndexesShort(currentIndex) ==
  0..(IF currentIndex > 1 THEN currentIndex - 2 ELSE 0)

\* Math.floor(Math.random() * currentIndex): the values randomIndex can take
randomIndexes(currentIndex) == 0..(currentIndex - 1)

\* Deck.shuffle as the set of its runs from the point where currentIndex
\* cards are still to be placed: the values of randomIndex drawn so far and
\* to come, in order, with the array each run ends with
RECURSIVE ShuffleRuns(_, _, _)
ShuffleRuns(cards, currentIndex, choices) ==
  IF currentIndex = 0 THEN {[choices |-> choices, cards |-> cards]}
  ELSE UNION { ShuffleRuns(Swap(cards, currentIndex, randomIndex + 1),
                           currentIndex - 1, Append(choices, randomIndex)) :
                 randomIndex \in randomIndexes(currentIndex) }

\* Math.floor(Math.random() * currentIndex) in the games that are played: as
\* long as more than MaxShuffled cards are still to be placed, Math.random()
\* returns a value so close to 1 that the card stays where it is; the cards
\* left are exchanged on any value
randomDraws(currentIndex) ==
  IF currentIndex <= MaxShuffled THEN randomIndexes(currentIndex)
  ELSE {currentIndex - 1}

\* Deck.shuffle from the point where currentIndex cards are still to be
\* placed: every outcome over the values drawn (indices here are 1-based)
RECURSIVE ShuffleFrom(_, _)
ShuffleFrom(cards, currentIndex) ==
  IF currentIndex = 0 THEN {cards}
  ELSE UNION { ShuffleFrom(Swap(cards, currentIndex, randomIndex + 1),
                           currentIndex - 1) :
                 randomIndex \in randomDraws(currentIndex) }

\* Deck.shuffle: every order the cards can end in
shuffle(cards) == ShuffleFrom(cards, Len(cards))

\* empty() that leaves the old card elements in the page
emptyKeep(tq) == tq

\* deckElem.empty(): the old card elements leave the page; callbacks that
\* still hold one of them now hold an element outside the page
empty(tq) == [i \in DOMAIN tq |-> [tq[i] EXCEPT !.elem = Detached]]

\* deckElem.append(card.toHtml()) for each card
appendAll(cards) == [i \in DOMAIN cards |-> toHtml(cards[i])]

\* ------------------------------------------------------------ Scoreboard
ScoreboardNew == [moves |-> 0, stars |-> 3, timeTaken |-> 0, timerId |-> Null]

\* updateScore without its final else: newVal keeps its initial value 3
updateScoreNoElse(sb) ==
  LET newVal == IF sb.moves < StarHigh THEN 3
                ELSE IF sb.moves < StarMid THEN 2 ELSE 3
  IN IF sb.stars # newVal THEN [sb EXCEPT !.stars = newVal] ELSE sb

\* updateScore comparing with <= at the thresholds
updateScoreLe(sb) ==
  LET newVal == IF sb.moves <= StarHigh THEN 3
                ELSE IF sb.moves <= StarMid THEN 2 ELSE 1
  IN IF sb.stars # newVal THEN [sb EXCEPT !.stars = newVal] ELSE sb

\* Scoreboard.updateScore: the star rating for the current move count
updateScore(sb) ==
  LET newVal == IF sb.moves < StarHigh THEN 3
                ELSE IF sb.moves < StarMid THEN 2 ELSE 1
  IN IF sb.stars # newVal THEN [sb EXCEPT !.stars = newVal] ELSE sb

incrementMoves(sb) == updateScore([sb EXCEPT !.moves = @ + 1])

\* Scoreboard.updateScore, the page: the number of star items in $('.stars'),
\* which is emptied and filled again only when the stored rating changes
updateScoreElem(sb, elem) ==
  LET newVal == IF sb.moves < StarHigh THEN 3
                ELSE IF sb.moves < StarMid THEN 2 ELSE 1
  IN IF sb.stars # newVal THEN newVal ELSE elem

incrementMovesElem(sb, elem) == updateScoreElem([sb EXCEPT !.moves = @ + 1], elem)

\* reset without the call of updateScore
resetNoUpdate(sb) ==
  [sb EXCEPT !.moves = 0, !.timerId = Null, !.timeTaken = 0, !.stars = 0]

\* Scoreboard.reset, the fields of the scoreboard
reset(sb) ==
  updateScore([sb EXCEPT !.moves = 0, !.timerId = Null, !.timeTaken = 0, !.stars = 0])

\* Scoreboard.reset, the star items of the page
resetElem(sb, elem) ==
  updateScoreElem([sb EXCEPT !.moves = 0, !.timerId = Null, !.timeTaken = 0, !.stars = 0], elem)

\* clearInterval(timerId) when timerId is set
clearInterval(ivs, id) == IF id # Null THEN {iv \in ivs : iv.id # id} ELSE ivs

\* setInterval: the smallest id not in use
newTimerId(ivs) ==
  CHOOSE n \in 1..(Cardinality(ivs) + 1) : \A iv \in ivs : iv.id # n

\* ------------------------------------------------------------------ Game
\* $('.card').on('click', ...)
bindAll(page) == [i \in DOMAIN page |-> [page[i] EXCEPT !.click = TRUE]]

\* Deck.display followed by the binding of the click handlers, for a deck in
\* the given order: every order shuffle can leave the cards in, with the
\* page made of it
displayOf(cards) ==
  { [cards |-> cs, page |-> bindAll(appendAll(cs))] : cs \in shuffle(cards) }

\* the same for every order the deck of main() can be in, worked out once
displays ==
  { [from |-> cs, to |-> displayOf(cs)] : cs \in shuffle(DeckNew(cardTypes).cards) }

display(cards) ==
  LET known == {r \in displays : r.from = cards}
  IN IF known # {} THEN (CHOOSE r \in known : TRUE).to ELSE displayOf(cards)

\* the handlers put back on every card, without .not('.match')
rebindAll(page) == [i \in DOMAIN page |-> [page[i] EXCEPT !.click = TRUE]]

\* $('.card').off('click') followed by $('.card').not('.match').on('click', ...)
rebindUnmatched(page) ==
  [i \in DOMAIN page |-> [page[i] EXCEPT !.click = ("match" \notin page[i].cls)]]

isMatched(oc) == Len(oc) > 1 /\ isEqual(oc[1], oc[2])

\* the guard of handleCardClick
isOpen(node) == "open" \in node.cls

AllMatched(page) == \A i \in DOMAIN page : "match" \in page[i].cls

VARIABLES
  deck,        \* this.deck: cardTypeCount and cards
  dom,         \* the card elements of the page, in page order
  timers,      \* setTimeout callbacks not yet run, in the order requested
  intervals,   \* active setInterval timers: id and Date.now() - startTime
  sb,          \* this.scoreboard: moves, stars, timeTaken, timerId
  modal,       \* whether the final-score modal is shown
  matches,     \* this.matches
  openCards,   \* this.openCards
  finishCount, \* calls of Game.finish since the last start or restart
  finishSnap,  \* what the latest call of Game.finish found
  lastOp,      \* the kind of the last event that changed anything
  starsElem,   \* the number of star items shown in $('.stars')
  loop         \* a call of Deck.shuffle in progress, or NoLoop

vars == <<deck, dom, timers, intervals, sb, modal, matches, openCards,
          finishCount, finishSnap, lastOp, starsElem, loop>>

\* values of lastOp: a restart, a callback holding an element that has left
\* the page, any other event
Restart == "restart"
Stale == "stale"
Effect == "effect"

NoSnap == [moves |-> 0, stars |-> 0, pending |-> 0, allMatched |-> FALSE]

\* no call of Deck.shuffle is being followed step by step
NoLoop == [pc |-> "none", types |-> <<>>, currentIndex |-> 0,
           choices |-> <<>>, order |-> <<>>]

\* main(): new Game(new Deck(cardTypes)) and game.start()
Init ==
  \E shown \in display(DeckNew(cardTypes).cards) :
    /\ deck = [DeckNew(cardTypes) EXCEPT !.cards = shown.cards]
    /\ dom = shown.page
    /\ timers = <<>>
    /\ intervals = {}
    /\ sb = ScoreboardNew
    /\ modal = FALSE
    /\ matches = 0
    /\ openCards = <<>>
    /\ finishCount = 0
    /\ finishSnap = NoSnap
    /\ lastOp = Effect
    /\ starsElem = ScoreboardNew.stars
    /\ loop = NoLoop

\* Scoreboard.start: starts the interval timer unless one is recorded
startTimerId(b, ivs) == IF b.timerId = Null THEN newTimerId(ivs) ELSE b.timerId

startIntervals(b, ivs) ==
  IF b.timerId = Null
    THEN ivs \cup {[id |-> newTimerId(ivs)]}
    ELSE ivs

\* Game.openCard: the timer queue and the open cards after card.show() and push
openCardTimers(tq, page, e) == show(tq, fromElem(page, e))
openCardPush(oc, page, e) == Append(oc, fromElem(page, e))

\* Game.lockMatched, the page: both open cards locked, then the click
\* handlers taken off every card and put back on the cards without 'match'
lockMatchedDom(page, oc) ==
  rebindUnmatched(
    [i \in DOMAIN page |->
       IF i = oc[1].elem \/ i = oc[2].elem
         THEN [page[i] EXCEPT !.cls = lock(@)]
         ELSE page[i]])

\* Game.lockMatched, the test that calls finish
isFinished(m, d) == m >= d.cardTypeCount

\* Game.hideUnmatched: a hide request for each open card when there are two
RECURSIVE hideEach(_, _, _)
hideEach(tq, oc, i) ==
  IF i > Len(oc) THEN tq ELSE hideEach(hide(tq, oc[i]), oc, i + 1)

hideUnmatched(tq, oc) == IF Len(oc) > 1 THEN hideEach(tq, oc, 1) ELSE tq

\* the test with 2 in place of 1
twoOpenLate(oc) == Len(oc) > 2

\* Game.handleCardClick, the test that a turn is to be resolved:
\* this.openCards.length > 1
twoOpen(oc) == Len(oc) > 1

\* Game.handleCardClick for a click on the card element at position e, taken
\* when it leaves at most the given number of callbacks pending and resolves
\* a turn only below the given number of moves
handleCardClickWithin(e, most, turns) ==
  /\ e \in DOMAIN dom
  /\ dom[e].click
  /\ IF isOpen(dom[e])
       THEN /\ UNCHANGED <<lastOp, dom, timers, intervals, sb, modal, matches,
                           openCards, finishCount, finishSnap>>
       ELSE
         LET sb1 == [sb EXCEPT !.timerId = startTimerId(sb, intervals)]
             iv1 == startIntervals(sb, intervals)
             tq1 == openCardTimers(timers, dom, e)
             oc1 == openCardPush(openCards, dom, e)
         IN
         /\ lastOp' = Effect
         /\ IF twoOpen(oc1)
              THEN
                /\ sb.moves < turns
                /\ openCards' = <<>>
                /\ IF isMatched(oc1)
                     THEN
                       LET m1 == matches + 1
                           dom1 == lockMatchedDom(dom, oc1)
                           fin == isFinished(m1, deck)
                       IN /\ matches' = m1
                          /\ Len(tq1) <= most
                          /\ timers' = tq1
                          /\ dom' = dom1
                          /\ IF fin
                               THEN \* Game.finish: Scoreboard.showFinalScores
                                 /\ intervals' = clearInterval(iv1, sb1.timerId)
                                 /\ sb' = incrementMoves([sb1 EXCEPT !.timerId = Null])
                                 /\ modal' = ~modal
                                 /\ finishCount' = finishCount + 1
                                 /\ finishSnap' = [moves |-> sb1.moves,
                                                   stars |-> sb1.stars,
                                                   pending |-> Len(oc1),
                                                   allMatched |-> AllMatched(dom1)]
                               ELSE
                                 /\ intervals' = iv1
                                 /\ sb' = incrementMoves(sb1)
                                 /\ UNCHANGED <<modal, finishCount, finishSnap>>
                     ELSE
                       /\ UNCHANGED <<dom, matches, modal, finishCount, finishSnap>>
                       /\ timers' = hideUnmatched(tq1, oc1)
                       /\ Len(timers') <= most
                       /\ intervals' = iv1
                       /\ sb' = incrementMoves(sb1)
              ELSE
                /\ Len(tq1) <= most
                /\ UNCHANGED <<dom, matches, modal, finishCount, finishSnap>>
                /\ openCards' = oc1
                /\ timers' = tq1
                /\ intervals' = iv1
                /\ sb' = sb1
  /\ starsElem' = IF ~isOpen(dom[e]) /\ Len(openCards) >= 1
                    THEN incrementMovesElem(sb, starsElem)
                    ELSE starsElem
  /\ UNCHANGED <<deck, loop>>

\* Game.handleCardClick for a click on the card element at position e
handleCardClick(e) == handleCardClickWithin(e, MaxTimers, MaxMoves)

\* Game.handleCardClick for a click on the <i> inside the card element at
\* position e: event.target is the icon, which never has the class 'open';
\* start() runs, then Card.determineType finds no child of the icon, reads
\* undefined for its class and throws at className.substr, which ends the
\* handler before anything is pushed or requested
handleCardClickIcon(e) ==
  /\ e \in DOMAIN dom
  /\ dom[e].click
  /\ sb' = [sb EXCEPT !.timerId = startTimerId(sb, intervals)]
  /\ intervals' = startIntervals(sb, intervals)
  /\ lastOp' = IF sb.timerId = Null THEN Effect ELSE lastOp
  /\ UNCHANGED <<deck, dom, timers, modal, matches, openCards, finishCount,
                 finishSnap, starsElem, loop>>

\* a click on a card element, or on the <i> inside it, when the element has
\* no click handler bound: nothing runs
clickUnbound(e) ==
  /\ e \in DOMAIN dom
  /\ ~dom[e].click
  /\ UNCHANGED <<lastOp, deck, dom, timers, intervals, sb, modal, matches,
                 openCards, finishCount, finishSnap, starsElem, loop>>

\* Game.handleRestart; display() reshuffles the cards of the deck and
\* replaces the card elements of the page
restartBody ==
  /\ intervals' = clearInterval(intervals, sb.timerId)
  /\ sb' = reset(sb)
  /\ starsElem' = resetElem(sb, starsElem)
  /\ matches' = 0
  /\ openCards' = <<>>
  /\ timers' = LET out == empty(timers)
               IN [i \in DOMAIN out |-> [out[i] EXCEPT !.pre = TRUE]]
  /\ finishCount' = 0
  /\ finishSnap' = NoSnap
  /\ lastOp' = Restart
  /\ UNCHANGED loop
  /\ \E shown \in display(deck.cards) :
       /\ deck' = [deck EXCEPT !.cards = shown.cards]
       /\ dom' = shown.page

handleRestart ==
  /\ restartBody
  /\ UNCHANGED modal

\* Game.handlePlayAgain: closeFinalScores(), which toggles the modal whether
\* it is shown or not, and handleRestart()
handlePlayAgain ==
  /\ modal' = ~modal
  /\ restartBody

\* Game.handleScoreModalClose: closeFinalScores(), which toggles the modal
\* whether it is shown or not
handleScoreModalClose ==
  /\ modal' = ~modal
  /\ lastOp' = Effect
  /\ UNCHANGED <<deck, dom, timers, intervals, sb, matches, openCards,
                 finishCount, finishSnap, starsElem, loop>>

\* The timers run callbacks in the order they fall due, on time or late.  A
\* callback is due after every callback requested before it with the same or
\* a shorter delay.  A short one is due before a long one requested before it
\* when it was requested less than the difference of the delays after it, and
\* after it otherwise; a click can be handled while callbacks are overdue, so
\* the callbacks still pending say nothing about the time between requests.
canFire(tq, i) == \A j \in 1..(i - 1) : tq[j].delay > tq[i].delay

\* the queue once callback i has run
removeAt(tq, i) == SubSeq(tq, 1, i - 1) \o SubSeq(tq, i + 1, Len(tq))

\* what a show or hide callback does to the page
applyCallback(page, t) ==
  IF t.elem \in DOMAIN page
    THEN [page EXCEPT ![t.elem].cls =
            IF t.kind = "show" THEN showCallback(@) ELSE hideCallback(@)]
    ELSE page

\* the callback of Card.show or Card.hide runs
fireTimer(i) ==
  /\ i \in DOMAIN timers
  /\ canFire(timers, i)
  /\ dom' = applyCallback(dom, timers[i])
  /\ timers' = removeAt(timers, i)
  /\ lastOp' = IF timers[i].elem \in DOMAIN dom THEN Effect ELSE Stale
  /\ UNCHANGED <<deck, intervals, sb, modal, matches, openCards,
                 finishCount, finishSnap, starsElem, loop>>

\* The values Date.now() - startTime can have when the setInterval callback
\* runs.  Date.now() reads the wall clock: the callback runs TickInterval
\* after the start or later, and the clock may have been set forward or back
\* in between, so the value at one run does not bound the value at the next
\* and it can be negative.  The values are taken at whole seconds, which is
\* all that Math.floor(... / 1000) keeps of them, from back below 0 to limit.
elapsedAtCallback(back, limit) ==
  { s * MsPerSecond :
      s \in (0 - (back \div MsPerSecond))..(limit \div MsPerSecond) }

\* the setInterval callback of Scoreboard.start runs during a game, reading
\* up to limit on a clock set back by up to back
tickWithin(back, limit) ==
  \E iv \in intervals :
    \E now \in elapsedAtCallback(back, limit) :
      /\ UNCHANGED intervals
      /\ sb' = [sb EXCEPT !.timeTaken = now \div MsPerSecond]
      /\ lastOp' = Effect
      /\ UNCHANGED <<deck, dom, timers, modal, matches, openCards, finishCount,
                     finishSnap, starsElem, loop>>

tick == tickWithin(MaxGameClockBack, MaxElapsed)

\* The cards the player clicks: those with fewer than the given number of
\* cards still in play before them on the page
ReachWithin(ahead) ==
  {e \in DOMAIN dom :
     Cardinality({i \in 1..(e - 1) : "match" \notin dom[i].cls}) < ahead}

Reach == ReachWithin(MaxAhead)

Next ==
  \/ \E e \in Reach : handleCardClick(e)
  \/ \E e \in Reach : handleCardClickIcon(e)
  \/ \E e \in Reach : clickUnbound(e)
  \/ handleRestart
  \/ handlePlayAgain
  \/ handleScoreModalClose
  \/ \E i \in DOMAIN timers : fireTimer(i)
  \/ tick

Spec == Init /\ [][Next]_vars

\* The same game with clicks in quicker succession: up to MaxBurst callbacks
\* pending, which a card clicked again within the short delay of a mismatch
\* needs (two callbacks of each kind), and up to MaxBurstMoves turns.
NextBurst ==
  \/ \E e \in Reach : handleCardClickWithin(e, MaxBurst, MaxBurstMoves)
  \/ \E e \in Reach : handleCardClickIcon(e)
  \/ \E e \in Reach : clickUnbound(e)
  \/ handleRestart
  \/ handlePlayAgain
  \/ handleScoreModalClose
  \/ \E i \in DOMAIN timers : fireTimer(i)
  \/ tick

SpecBurst == Init /\ [][NextBurst]_vars

\* The game played to its end from the top of the page: turns up to
\* MaxFinishMoves on the first MaxFinishAhead cards in play, with at most
\* MaxFinishTimers callbacks pending, which leaves no room for the three
\* callbacks of a mismatch.  The timer reads up to MaxFinishElapsed; .restart
\* and the buttons of the score dialog are clicked at any time.
NextFinish ==
  \/ \E e \in ReachWithin(MaxFinishAhead) :
       handleCardClickWithin(e, MaxFinishTimers, MaxFinishMoves)
  \/ \E e \in ReachWithin(MaxFinishAhead) : handleCardClickIcon(e)
  \/ handleRestart
  \/ handlePlayAgain
  \/ handleScoreModalClose
  \/ \E i \in DOMAIN timers : fireTimer(i)
  \/ tickWithin(MaxGameClockBack, MaxFinishElapsed)

SpecFinish == Init /\ [][NextFinish]_vars

\* ------------------------------------------ the scoreboard on its own
\* The methods of the Scoreboard of a new game, called in any order, with
\* the move count running past both thresholds of the rating.
scoreboardFrame ==
  UNCHANGED <<deck, dom, timers, matches, openCards, finishCount, finishSnap,
              lastOp, loop>>

\* Scoreboard.start
callStart ==
  /\ sb' = [sb EXCEPT !.timerId = startTimerId(sb, intervals)]
  /\ intervals' = startIntervals(sb, intervals)
  /\ UNCHANGED <<modal, starsElem>>
  /\ scoreboardFrame

\* Scoreboard.reset
callReset ==
  /\ intervals' = clearInterval(intervals, sb.timerId)
  /\ sb' = reset(sb)
  /\ starsElem' = resetElem(sb, starsElem)
  /\ UNCHANGED modal
  /\ scoreboardFrame

\* Scoreboard.incrementMoves
callIncrementMoves ==
  /\ sb.moves < MaxScoreMoves
  /\ sb' = incrementMoves(sb)
  /\ starsElem' = incrementMovesElem(sb, starsElem)
  /\ UNCHANGED <<intervals, modal>>
  /\ scoreboardFrame

\* Scoreboard.showFinalScores
showFinalScores ==
  /\ intervals' = clearInterval(intervals, sb.timerId)
  /\ sb' = [sb EXCEPT !.timerId = Null]
  /\ modal' = ~modal
  /\ UNCHANGED starsElem
  /\ scoreboardFrame

\* Scoreboard.closeFinalScores
closeFinalScores ==
  /\ modal' = ~modal
  /\ UNCHANGED <<sb, intervals, starsElem>>
  /\ scoreboardFrame

\* the setInterval callback of Scoreboard.start, reading up to MaxRunTime
timerCallback ==
  \E iv \in intervals :
    \E now \in elapsedAtCallback(MaxClockBack, MaxRunTime) :
      /\ UNCHANGED intervals
      /\ sb' = [sb EXCEPT !.timeTaken = now \div MsPerSecond]
      /\ UNCHANGED <<modal, starsElem>>
      /\ scoreboardFrame

NextScoreboard ==
  \/ callStart
  \/ callReset
  \/ callIncrementMoves
  \/ showFinalScores
  \/ closeFinalScores
  \/ timerCallback

SpecScoreboard == Init /\ [][NextScoreboard]_vars

\* ------------------------------------------------ the deck on its own
\* A game made for any list of distinct types: the first display() followed
\* through the loop of shuffle step by step (loop records the values drawn
\* and where each card of the constructor's order has gone), then restarts.
typePool == <<cardTypes[3], cardTypes[5], cardTypes[7]>>

TypeLists ==
  { [k \in DOMAIN f |-> typePool[f[k]]] :
      f \in { g \in UNION { [1..n -> DOMAIN typePool] : n \in 0..MaxTypes } :
                \A i, j \in DOMAIN g : i # j => g[i] # g[j] } }

\* new Game(new Deck(types)); game.start() has entered display() and
\* shuffle() is about to test its loop condition for the first time
InitDeck ==
  \E types \in TypeLists :
    /\ deck = DeckNew(types)
    /\ loop = [pc |-> "shuffle", types |-> types,
               currentIndex |-> Len(DeckNew(types).cards),
               choices |-> <<>>,
               order |-> Identity(Len(DeckNew(types).cards))]
    /\ dom = <<>>
    /\ timers = <<>>
    /\ intervals = {}
    /\ sb = ScoreboardNew
    /\ modal = FALSE
    /\ matches = 0
    /\ openCards = <<>>
    /\ finishCount = 0
    /\ finishSnap = NoSnap
    /\ lastOp = Effect
    /\ starsElem = ScoreboardNew.stars

\* one pass of the while loop of Deck.shuffle
shuffleStep ==
  /\ loop.pc = "shuffle"
  /\ loop.currentIndex # 0
  /\ \E randomIndex \in randomIndexes(loop.currentIndex) :
       /\ deck' = [deck EXCEPT !.cards = Swap(@, loop.currentIndex, randomIndex + 1)]
       /\ loop' = [loop EXCEPT !.currentIndex = @ - 1,
                               !.choices = Append(@, randomIndex),
                               !.order = Swap(@, loop.currentIndex, randomIndex + 1)]
  /\ UNCHANGED <<dom, timers, intervals, sb, modal, matches, openCards,
                 finishCount, finishSnap, lastOp, starsElem>>

\* the loop of shuffle has ended: the rest of Deck.display and of Game.start
displayAppend ==
  /\ loop.pc = "shuffle"
  /\ loop.currentIndex = 0
  /\ dom' = bindAll(appendAll(deck.cards))
  /\ timers' = empty(timers)
  /\ loop' = [NoLoop EXCEPT !.pc = "shown", !.types = loop.types]
  /\ UNCHANGED <<deck, intervals, sb, modal, matches, openCards,
                 finishCount, finishSnap, lastOp, starsElem>>

\* a click on the restart button once the game has started
restartShown ==
  /\ loop.pc = "shown"
  /\ handleRestart

\* a click on a card of the game once it is shown, for a list of up to
\* MaxDeckPlayedTypes types, with at most MaxDeckTimers callbacks pending and
\* MaxDeckMoves turns
revealShown(e) ==
  /\ loop.pc = "shown"
  /\ Len(loop.types) <= MaxDeckPlayedTypes
  /\ handleCardClickWithin(e, MaxDeckTimers, MaxDeckMoves)

\* a show or hide callback runs in the game once it is shown
callbackShown(i) ==
  /\ loop.pc = "shown"
  /\ fireTimer(i)

\* a click on the <i> inside a card of the game once it is shown
iconShown(e) ==
  /\ loop.pc = "shown"
  /\ handleCardClickIcon(e)

\* a click on a card of the game that has no click handler bound
unboundShown(e) ==
  /\ loop.pc = "shown"
  /\ clickUnbound(e)

\* a click on #yesButton once the game has started
playAgainShown ==
  /\ loop.pc = "shown"
  /\ handlePlayAgain

\* a click on #noButton or .close once the game has started
modalCloseShown ==
  /\ loop.pc = "shown"
  /\ handleScoreModalClose

\* the setInterval callback of Scoreboard.start runs in the game once it is
\* shown
tickShown ==
  /\ loop.pc = "shown"
  /\ tick

NextDeck ==
  \/ shuffleStep
  \/ displayAppend
  \/ restartShown
  \/ playAgainShown
  \/ modalCloseShown
  \/ \E e \in Reach : revealShown(e)
  \/ \E e \in Reach : iconShown(e)
  \/ \E e \in Reach : unboundShown(e)
  \/ \E i \in DOMAIN timers : callbackShown(i)
  \/ tickShown

SpecDeck == InitDeck /\ [][NextDeck]_vars

\* a click on the card element at position e, whether or not a handler runs
click(e) == handleCardClick(e) \/ clickUnbound(e)

\* everything but the record of the last event
state == <<deck, dom, timers, intervals, sb, modal, matches, openCards,
           finishCount, finishSnap, starsElem, loop>>

Matched(e) == "match" \in dom[e].cls
MatchedCards == {e \in DOMAIN dom : Matched(e)}

\* ---------------------------------------------------------------- claims

\* C1: with exactly one card pending, a click on a different card that is
\* hidden, unmatched and of the same type leaves both cards Matched, the
\* pending set empty, moveCount one higher and the match count one higher.
C1_MatchResolves ==
  [][\A e \in DOMAIN dom :
       ( /\ Len(openCards) = 1
         /\ openCards[1].elem # e
         /\ ~isOpen(dom[e])
         /\ ~Matched(e)
         /\ determineType(dom[e]) = openCards[1].type
         /\ click(e) )
       => ( /\ "match" \in dom'[e].cls
            /\ "match" \in dom'[openCards[1].elem].cls
            /\ openCards' = <<>>
            /\ sb'.moves = sb.moves + 1
            /\ matches' = matches + 1 )]_vars

C1_Witness ==
  /\ matches = 1
  /\ sb.moves = 1
  /\ openCards = <<>>
  /\ \E a, b \in DOMAIN dom :
       a # b /\ MatchedCards = {a, b} /\ determineType(dom[a]) = determineType(dom[b])

\* C2: with exactly one card pending, a click on a hidden, unmatched card of
\* a different type leaves the pending set empty, moveCount one higher, the
\* match count unchanged and neither card Matched.
C2_MismatchResolves ==
  [][\A e \in DOMAIN dom :
       ( /\ Len(openCards) = 1
         /\ ~isOpen(dom[e])
         /\ ~Matched(e)
         /\ determineType(dom[e]) # openCards[1].type
         /\ click(e) )
       => ( /\ openCards' = <<>>
            /\ sb'.moves = sb.moves + 1
            /\ matches' = matches
            /\ "match" \notin dom'[e].cls
            /\ "match" \notin dom'[openCards[1].elem].cls )]_vars

C2_Witness ==
  /\ matches = 0
  /\ sb.moves = 1
  /\ openCards = <<>>
  /\ MatchedCards = {}
  /\ \E i, j \in DOMAIN timers :
       /\ i # j
       /\ timers[i].kind = "hide" /\ timers[j].kind = "hide"
       /\ timers[i].elem # timers[j].elem
       /\ timers[i].elem \in DOMAIN dom /\ timers[j].elem \in DOMAIN dom

\* C3: after a mismatch, a mismatched card stays revealed until the hide
\* callback scheduled for it runs: while a hide callback for an unmatched
\* card of the page is pending and every show callback requested before it
\* for that card has run, the card is revealed.
C3_RevealedUntilHide ==
  \A i \in DOMAIN timers :
    ( /\ timers[i].kind = "hide"
      /\ timers[i].elem \in DOMAIN dom
      /\ ~Matched(timers[i].elem)
      /\ \A j \in 1..(i - 1) :
           ~(timers[j].kind = "show" /\ timers[j].elem = timers[i].elem) )
    => isOpen(dom[timers[i].elem])

\* C4: a click on a card that is Matched changes nothing: pending set, match
\* count, moveCount, star rating, timer and every card stay as they are.
C4_ClickOnMatchedIsNoOp ==
  [][\A e \in DOMAIN dom : (Matched(e) /\ click(e)) => UNCHANGED state]_vars

\* a Matched card, which a click leaves as it is, next to cards still in play
C4_Witness ==
  /\ matches >= 1
  /\ \E e \in DOMAIN dom : Matched(e) /\ ~dom[e].click
  /\ \E e \in DOMAIN dom : ~Matched(e) /\ dom[e].click

\* C5: a click on the card that is the sole pending card is ignored: pending
\* set, moveCount and match count are unchanged.
C5_ClickOnPendingIgnored ==
  [][\A e \in DOMAIN dom :
       (Len(openCards) = 1 /\ openCards[1].elem = e /\ click(e))
       => UNCHANGED <<openCards, matches, sb>>]_vars

\* C6: within a session finish is called at most once, only when every card
\* of the page is Matched, and at the match that makes the match count equal
\* to the number of types.
C6_GameCompleteOnce ==
  finishCount > 0 =>
    /\ finishCount = 1
    /\ finishSnap.allMatched
    /\ matches = deck.cardTypeCount

\* C7: when finish is called the pending set is already empty and moveCount
\* and the star rating already include the completing move.
C7_FinishAfterIncrement ==
  ( /\ finishCount = 1
    /\ finishSnap.allMatched
    /\ matches = deck.cardTypeCount )
  => ( /\ finishSnap.pending = 0
       /\ finishSnap.moves = sb.moves
       /\ finishSnap.stars = sb.stars )

\* the number of cards of the given type in a sequence of cards
CountType(cards, type) == Cardinality({i \in DOMAIN cards : cards[i].type = type})

C9_StaleCallbackInert ==
  [][\A i \in DOMAIN timers :
       (timers[i].pre /\ fireTimer(i))
       => UNCHANGED <<deck, dom, intervals, sb, modal, matches, openCards>>]_vars

C9_Witness ==
  /\ lastOp = Stale
  /\ Len(openCards) = 1
  /\ ~isOpen(dom[openCards[1].elem])

\* C10: a card that is Matched carries the matched marking only: no show or
\* hide callback gives it the open marking again.  Stated for the sessions
\* in which every match locked two different cards.
C10_MatchedNeverOpen ==
  Cardinality(MatchedCards) = 2 * matches =>
    \A e \in DOMAIN dom : Matched(e) => ~isOpen(dom[e])

\* C11: after every move increment and after every reset the stored rating
\* and the number of stars shown both equal computeStars(moveCount): 3 below
\* 15 moves, 2 from 15 to 24, 1 from 25 on; the rating never lags a move.
C11_StarsFollowMoves ==
  LET computeStars == IF sb.moves < 15 THEN 3
                      ELSE IF sb.moves < 25 THEN 2 ELSE 1
  IN /\ sb.stars = computeStars
     /\ starsElem = computeStars

\* the rating has dropped to 1 at the 25th move
C11_Witness ==
  /\ sb.moves = 25
  /\ sb.stars = 1
  /\ starsElem = 1

\* C12: between two resets the rating never goes up: every step other than
\* a reset leaves the stored rating and the stars shown equal or lower.
C12_StarsNeverRecover ==
  [][callReset \/ (sb'.stars <= sb.stars /\ starsElem' <= starsElem)]_vars

\* the rating has dropped twice and further moves have been made
C12_Witness ==
  /\ sb.moves > 25
  /\ sb.stars = 1
  /\ starsElem = 1

\* C13: for every list of N distinct types the deck has exactly 2N cards,
\* two of every type of the list, in every reachable state: the constructor
\* builds it so, shuffle, display and restart only reorder it and reveals
\* leave it as it is; the page shows the cards of the deck once displayed.
C13_DeckComposition ==
  /\ deck.cardTypeCount = Len(loop.types)
  /\ Len(deck.cards) = 2 * Len(loop.types)
  /\ \A k \in DOMAIN loop.types : CountType(deck.cards, loop.types[k]) = 2
  /\ loop.pc = "shown" =>
       /\ DOMAIN dom = DOMAIN deck.cards
       /\ \A e \in DOMAIN dom : determineType(dom[e]) = deck.cards[e].type

\* a deck shown again by a restart, with the show callback of a reveal made
\* before the restart still pending
C13_Witness ==
  /\ loop.pc = "shown"
  /\ lastOp = Restart
  /\ Len(loop.types) >= 1
  /\ Len(deck.cards) = 2 * Len(loop.types)
  /\ \E i \in DOMAIN timers : timers[i].pre /\ timers[i].kind = "show"

RECURSIVE Factorial(_)
Factorial(n) == IF n = 0 THEN 1 ELSE n * Factorial(n - 1)

\* C14: shuffle is a Fisher-Yates shuffle.  Every pass of its loop lowers
\* the index by one, down to 0 where the loop ends, and exchanges the card at
\* the new index i with the card at a drawn index in 0..i.  Over all the
\* values that can be drawn, every permutation of the positions is the
\* result of exactly one run: the runs are as many as the permutations, no
\* two runs end alike, and a deck of two or more cards has several orders.
C14_FisherYates ==
  [][shuffleStep =>
       LET n == Len(deck.cards)
           i == loop.currentIndex - 1
           drawn == loop'.choices[Len(loop'.choices)]
       IN /\ loop'.currentIndex = i
          /\ i >= 0
          /\ drawn \in 0..i
          /\ deck'.cards = Swap(deck.cards, i + 1, drawn + 1)
          /\ i = 0 =>
               LET runs == ShuffleRuns(Identity(n), n, <<>>)
                   results == {run.cards : run \in runs}
               IN /\ [choices |-> loop'.choices, cards |-> loop'.order] \in runs
                  /\ \A p \in results : {p[k] : k \in 1..n} = 1..n
                  /\ Cardinality(runs) = Factorial(n)
                  /\ Cardinality(results) = Factorial(n)
                  /\ n >= 2 => Cardinality(results) > 1]_vars

\* the loop has ended on a deck of four cards with the cards moved
C14_Witness ==
  /\ loop.pc = "shuffle"
  /\ loop.currentIndex = 0
  /\ Len(loop.order) = 4
  /\ loop.order # Identity(4)
  /\ Len(loop.choices) = 4

\* C15: the pending set holds at most 2 cards at any instant, and 0 or 1
\* between events: openCards has 0 or 1 card in every state, and the push of
\* a click makes it 2 at most.
C15_PendingAtMostTwo ==
  /\ Len(openCards) <= 1
  /\ \A e \in DOMAIN dom : Len(openCardPush(openCards, dom, e)) <= 2

\* a card is pending after a turn has been resolved
C15_Witness ==
  /\ Len(openCards) = 1
  /\ sb.moves >= 1
  /\ lastOp = Effect

\* C16: start is idempotent: called while the timer runs it leaves the
\* scoreboard and the running timer as they are; at most one interval timer
\* is active; and while a timer runs, from one state to the next, the
\* elapsed seconds of the scoreboard never decrease.
C16_StartIdempotent ==
  [][ /\ (callStart /\ sb.timerId # Null) => UNCHANGED <<sb, intervals>>
      /\ Cardinality(intervals') <= 1
      /\ (sb.timerId # Null /\ sb'.timerId # Null)
           => sb'.timeTaken >= sb.timeTaken ]_vars

\* C17: a game made with an empty list of types has an empty deck and is
\* complete at once: finish has been called when start returns, and again
\* when a restart returns, without any reveal.
C17_EmptyDeckComplete ==
  (loop.pc = "shown" /\ loop.types = <<>>) =>
    /\ deck.cards = <<>>
    /\ dom = <<>>
    /\ finishCount >= 1

\* C18: the first reveal of a turn and every ignored reveal (a click on a
\* card that is Matched, has no click handler, carries the open marking or
\* is the sole pending card) leave moveCount, the match count and the
\* rating unchanged; moveCount changes only by +1, when the second reveal of
\* a turn is resolved and the pending set cleared, and to 0 on a restart.
C18_MovesCountTurns ==
  [][ /\ \/ ( /\ sb'.moves = sb.moves
              /\ sb'.stars = sb.stars
              /\ matches' = matches )
         \/ \A e \in DOMAIN dom :
              LET pending == Len(openCards) = 1 /\ openCards[1].elem = e
                  ignored == Matched(e) \/ isOpen(dom[e]) \/ ~dom[e].click
                               \/ pending
              IN ~(ignored /\ click(e))
      /\ (openCards = <<>> /\ Len(openCards') = 1)
           => ( /\ sb'.moves = sb.moves
                /\ sb'.stars = sb.stars
                /\ matches' = matches )
      /\ sb'.moves # sb.moves =>
           \/ lastOp' = Restart /\ sb'.moves = 0 /\ openCards' = <<>>
           \/ /\ sb'.moves = sb.moves + 1
              /\ Len(openCards) = 1
              /\ openCards' = <<>>
      /\ (Len(openCards) = 1 /\ openCards' = <<>> /\ lastOp' # Restart)
           => sb'.moves = sb.moves + 1 ]_vars

\* C19: in every reachable state the match count is half the number of
\* Matched cards and at most the number of types: every increment of the
\* count made two different cards of equal type Matched.
C19_MatchCountIsHalfMatched ==
  /\ 2 * matches = Cardinality(MatchedCards)
  /\ matches <= deck.cardTypeCount

\* C20: a hide callback of an earlier mismatch never hides the pending card:
\* once every show callback requested for the pending card has run, the card
\* carries the open marking until its turn is resolved.
C20_PendingStaysRevealed ==
  ( /\ Len(openCards) = 1
    /\ \A j \in DOMAIN timers :
         ~(timers[j].kind = "show" /\ timers[j].elem = openCards[1].elem) )
  => isOpen(dom[openCards[1].elem])

====
